---- MODULE Spec2Model ----
(***************************************************************************)
(* The generic hashtable of the "Go generics" write-up: a Table with m     *)
(* buckets, a caller-supplied hash function, and the operations New, Get   *)
(* and Insert.  Buckets are Go slices of kv records; a Go index i is the   *)
(* TLA+ index i + 1.                                                       *)
(***************************************************************************)
EXTENDS Integers, Sequences, FiniteSets, TLC

VARIABLES
    m,            \* Table.m: the bucket count given to New
    hash,         \* Table.hash applied to t.m: key |-> hash(key, m)
    table,        \* Table.table: a sequence of m buckets, each a sequence of kv
    panicked,     \* TRUE once an index expression went out of range (run-time panic)
    last,         \* history: the most recent call, with its arguments and result
    prev,         \* history: Table.table as it was before the most recent call
    latest,       \* history: key |-> value of the most recent Insert of that key
    afterInsert,  \* history: the most recent call is a Get that directly follows an Insert of its key
    thr,          \* concurrent use: each thread's position and locals inside Get / Insert
    calls,        \* concurrent use: number of calls started so far
    overlapped,   \* concurrent use: some call started while another was in progress
    completed     \* concurrent use: the keys whose Insert has returned

vars == <<m, hash, table, panicked, last, prev, latest, afterInsert,
          thr, calls, overlapped, completed>>

-----------------------------------------------------------------------------
(* Bounds of the model *)

MaxKey == 2
MaxVal == 1
MaxBuckets == 2
MaxCalls == 3

(* Program constants *)

ZeroValue == 0
DemoBuckets == 8

Keys == 0..MaxKey
IntKeys == (0 - MaxKey)..MaxKey
Vals == ZeroValue..MaxVal
Threads == {"a", "b"}

-----------------------------------------------------------------------------
(* Pure functions of the program *)

\* Go's remainder operator: the result has the sign of the dividend.
GoRem(a, b) == IF a >= 0 THEN a % b ELSE 0 - ((0 - a) % b)

\* The hash function handed to New for the demo table t2.
T2Hash(key, mm) == GoRem(key, mm)

\* New: m empty buckets.
New(mm) == [i \in 1..mm |-> <<>>]

\* t.table[i] is a legal index expression.
InRange(t, i) == i >= 0 /\ i < Len(t)

\* Variant of the range loop with a plausible slip: the comparison never matches.
ScanNeverMatches(b, key, j) == 0

\* The range loop shared by Get and Insert: the first position j (from j on)
\* whose entry has the key, 0 when the loop runs off the end of the bucket.
RECURSIVE Scan(_, _, _)
Scan(b, key, j) ==
    IF j > Len(b) THEN 0
    ELSE IF key = b[j].Key THEN j
    ELSE Scan(b, key, j + 1)

\* Variants of Get with a plausible slip, used to test the properties below.
\* Found is derived from the value instead of from the match.
GetZeroMeansMissing(t, i, key) ==
    LET j == Scan(t[i + 1], key, 1)
    IN  IF j # 0 THEN <<t[i + 1][j].Value, t[i + 1][j].Value # ZeroValue>>
        ELSE <<ZeroValue, FALSE>>

\* The loop variable's value leaks into the result of a miss.
GetLeaksLastValue(t, i, key) ==
    LET j == Scan(t[i + 1], key, 1)
        b == t[i + 1]
    IN  IF j # 0 THEN <<b[j].Value, TRUE>>
        ELSE IF Len(b) > 0 THEN <<b[Len(b)].Value, FALSE>>
        ELSE <<ZeroValue, FALSE>>

\* The bucket alone decides: the first entry is returned without comparing keys.
GetFirstInBucket(t, i, key) ==
    IF Len(t[i + 1]) > 0 THEN <<t[i + 1][1].Value, TRUE>> ELSE <<ZeroValue, FALSE>>

\* Get on table t with bucket index i: the pair (value, found).
GetResult(t, i, key) ==
    LET j == Scan(t[i + 1], key, 1)
    IN  IF j # 0 THEN <<t[i + 1][j].Value, TRUE>> ELSE <<ZeroValue, FALSE>>

\* Variants of Insert with a plausible slip, used to test the properties below.
\* The overwrite branch returns without assigning.
InsertKeepsOld(t, i, key, value) ==
    LET j == Scan(t[i + 1], key, 1)
    IN  IF j # 0
        THEN t
        ELSE [t EXCEPT ![i + 1] = Append(@, [Key |-> key, Value |-> value])]

\* No overwrite branch: every call appends.
InsertAlwaysAppend(t, i, key, value) ==
    [t EXCEPT ![i + 1] = Append(@, [Key |-> key, Value |-> value])]

\* A new entry is put in front of the bucket.
InsertPrepends(t, i, key, value) ==
    LET j == Scan(t[i + 1], key, 1)
    IN  IF j # 0
        THEN [t EXCEPT ![i + 1][j].Value = value]
        ELSE [t EXCEPT ![i + 1] = <<[Key |-> key, Value |-> value]>> \o @]

\* A new entry replaces the bucket instead of extending it.
InsertReplacesBucket(t, i, key, value) ==
    LET j == Scan(t[i + 1], key, 1)
    IN  IF j # 0
        THEN [t EXCEPT ![i + 1][j].Value = value]
        ELSE [t EXCEPT ![i + 1] = <<[Key |-> key, Value |-> value]>>]

\* The overwrite branch writes the first entry of the bucket, not entry j.
InsertWritesFirst(t, i, key, value) ==
    LET j == Scan(t[i + 1], key, 1)
    IN  IF j # 0
        THEN [t EXCEPT ![i + 1][1].Value = value]
        ELSE [t EXCEPT ![i + 1] = Append(@, [Key |-> key, Value |-> value])]

\* Insert on table t with bucket index i: the table afterwards.
InsertResult(t, i, key, value) ==
    LET j == Scan(t[i + 1], key, 1)
    IN  IF j # 0
        THEN [t EXCEPT ![i + 1][j].Value = value]
        ELSE [t EXCEPT ![i + 1] = Append(@, [Key |-> key, Value |-> value])]

-----------------------------------------------------------------------------
(* Sequential use *)

IdleThreads == [t \in Threads |-> [pc |-> "idle"]]

InitWith(mm, keys) ==
    /\ m = mm
    /\ hash = [k \in keys |-> T2Hash(k, mm)]
    /\ table = New(mm)
    /\ panicked = FALSE
    /\ last = [op |-> "New"]
    /\ prev = New(mm)
    /\ latest = <<>>
    /\ afterInsert = FALSE
    /\ thr = IdleThreads
    /\ calls = 0
    /\ overlapped = FALSE
    /\ completed = {}

\* A table built with an in-range hash function.
Init == \E mm \in 1..MaxBuckets : InitWith(mm, Keys)

\* The demo table t2: 8 buckets, int keys.
InitT2 == InitWith(DemoBuckets, IntKeys)

Insert(key, value) ==
    /\ ~panicked
    /\ prev' = table
    /\ afterInsert' = FALSE
    /\ latest' = [k \in DOMAIN latest \cup {key} |-> IF k = key THEN value ELSE latest[k]]
    /\ last' = [op |-> "Insert", key |-> key, value |-> value]
    /\ IF InRange(table, hash[key])
       THEN /\ table' = InsertResult(table, hash[key], key, value)
            /\ UNCHANGED panicked
       ELSE /\ panicked' = TRUE
            /\ UNCHANGED table
    /\ UNCHANGED <<m, hash, thr, calls, overlapped, completed>>

Get(key) ==
    /\ ~panicked
    /\ prev' = table
    /\ afterInsert' = (last.op = "Insert" /\ last.key = key)
    /\ IF InRange(table, hash[key])
       THEN /\ last' = [op |-> "Get", key |-> key, ret |-> GetResult(table, hash[key], key)]
            /\ UNCHANGED panicked
       ELSE /\ last' = [op |-> "Get", key |-> key]
            /\ panicked' = TRUE
    /\ UNCHANGED <<m, hash, table, latest, thr, calls, overlapped, completed>>

Next ==
    \/ \E key \in DOMAIN hash, value \in Vals : Insert(key, value)
    \/ \E key \in DOMAIN hash : Get(key)

Spec == Init /\ [][Next]_vars

SpecT2 == InitT2 /\ [][Next]_vars

-----------------------------------------------------------------------------
(* Concurrent use: the threads run Get and Insert on one table with no lock. *)
(* A call is a sequence of steps: hash, the scan of the bucket, and then,    *)
(* for Insert, either the write of the value or the append, which reads the  *)
(* bucket's slice and then assigns the extended slice back.                  *)

Busy(t) == thr[t].pc # "idle"

\* Thread t calls Insert(key, value).
CallInsert(t, key, value) ==
    /\ ~panicked
    /\ ~Busy(t)
    /\ calls < MaxCalls
    /\ calls' = calls + 1
    /\ overlapped' = (overlapped \/ \E u \in Threads \ {t} : Busy(u))
    /\ thr' = [thr EXCEPT ![t] =
                  [pc |-> "hash", op |-> "Insert", key |-> key, value |-> value]]
    /\ UNCHANGED <<m, hash, table, panicked, last, prev, latest, afterInsert, completed>>

\* Thread t calls Get(key).
CallGet(t, key) ==
    /\ ~panicked
    /\ ~Busy(t)
    /\ calls < MaxCalls
    /\ calls' = calls + 1
    /\ overlapped' = (overlapped \/ \E u \in Threads \ {t} : Busy(u))
    /\ thr' = [thr EXCEPT ![t] = [pc |-> "hash", op |-> "Get", key |-> key]]
    /\ UNCHANGED <<m, hash, table, panicked, last, prev, latest, afterInsert, completed>>

\* i := t.hash(key, t.m)
HashStep(t) ==
    /\ ~panicked
    /\ thr[t].pc = "hash"
    /\ thr' = [thr EXCEPT ![t] = [@ EXCEPT !.pc = "scan"] @@ [i |-> hash[thr[t].key]]]
    /\ UNCHANGED <<m, hash, table, panicked, last, prev, latest, afterInsert,
                   calls, overlapped, completed>>

\* for j, kv := range t.table[i]: Get returns from here, Insert goes on to
\* the write of entry j or to the append.
ScanStep(t) ==
    /\ ~panicked
    /\ thr[t].pc = "scan"
    /\ IF ~InRange(table, thr[t].i)
       THEN /\ panicked' = TRUE
            /\ thr' = [thr EXCEPT ![t].pc = "panic"]
       ELSE /\ UNCHANGED panicked
            /\ LET j == Scan(table[thr[t].i + 1], thr[t].key, 1)
               IN  thr' = [thr EXCEPT ![t] =
                      IF thr[t].op = "Get"
                      THEN [pc |-> "idle", ret |-> GetResult(table, thr[t].i, thr[t].key)]
                      ELSE IF j # 0
                      THEN [@ EXCEPT !.pc = "write"] @@ [j |-> j]
                      ELSE [@ EXCEPT !.pc = "load"]]
    /\ UNCHANGED <<m, hash, table, last, prev, latest, afterInsert,
                   calls, overlapped, completed>>

\* t.table[i][j].Value = value, with the index j found by the scan; the
\* bucket is read again here, and the write panics when a concurrent store
\* has left it shorter than j.
WriteStep(t) ==
    /\ ~panicked
    /\ thr[t].pc = "write"
    /\ IF thr[t].j > Len(table[thr[t].i + 1])
       THEN /\ panicked' = TRUE
            /\ thr' = [thr EXCEPT ![t].pc = "panic"]
            /\ UNCHANGED <<table, completed>>
       ELSE /\ UNCHANGED panicked
            /\ table' = [table EXCEPT ![thr[t].i + 1][thr[t].j].Value = thr[t].value]
            /\ thr' = [thr EXCEPT ![t] = [pc |-> "idle"]]
            /\ completed' = completed \cup {thr[t].key}
    /\ UNCHANGED <<m, hash, last, prev, latest, afterInsert, calls, overlapped>>

\* append(t.table[i], ...): the slice t.table[i] is read
LoadStep(t) ==
    /\ ~panicked
    /\ thr[t].pc = "load"
    /\ thr' = [thr EXCEPT ![t] = [@ EXCEPT !.pc = "store"] @@ [s |-> table[thr[t].i + 1]]]
    /\ UNCHANGED <<m, hash, table, panicked, last, prev, latest, afterInsert,
                   calls, overlapped, completed>>

\* t.table[i] = the slice read, extended by the new entry
StoreStep(t) ==
    /\ ~panicked
    /\ thr[t].pc = "store"
    /\ table' = [table EXCEPT ![thr[t].i + 1] =
                    Append(thr[t].s, [Key |-> thr[t].key, Value |-> thr[t].value])]
    /\ thr' = [thr EXCEPT ![t] = [pc |-> "idle"]]
    /\ completed' = completed \cup {thr[t].key}
    /\ UNCHANGED <<m, hash, panicked, last, prev, latest, afterInsert, calls, overlapped>>

NextConc ==
    \E t \in Threads :
        \/ \E key \in DOMAIN hash, value \in Vals : CallInsert(t, key, value)
        \/ \E key \in DOMAIN hash : CallGet(t, key)
        \/ HashStep(t)
        \/ ScanStep(t)
        \/ WriteStep(t)
        \/ LoadStep(t)
        \/ StoreStep(t)

SpecConc == Init /\ [][NextConc]_vars

-----------------------------------------------------------------------------
(* Properties of sequential use (specification Spec) *)

\* The bucket b holds an entry with the key.
Present(b, key) == \E j \in DOMAIN b : b[j].Key = key

\* The bucket (as a TLA+ index) that the key hashes to.
Home(key) == hash[key] + 1

\* What Get(key) returns in the current state.
Lookup(key) == GetResult(table, hash[key], key)

\* The most recent call is an Insert that found its key already stored.
Overwrote ==
    /\ last.op = "Insert"
    /\ ~panicked
    /\ Present(prev[Home(last.key)], last.key)

\* The most recent call is an Insert that found its key stored with another value.
OverwroteOtherValue ==
    /\ Overwrote
    /\ \E j \in DOMAIN prev[Home(last.key)] :
          /\ prev[Home(last.key)][j].Key = last.key
          /\ prev[Home(last.key)][j].Value # last.value

\* C1: a Get(k) that directly follows Insert(k, v) returns (v, true), for every
\* key and every value, the zero value included.
InsertThenGet ==
    [][ (last.op = "Insert" /\ last'.op = "Get" /\ last'.key = last.key)
          => (~panicked' /\ last'.ret = <<last.value, TRUE>>) ]_vars

\* C1 witness: Insert(k, zero value) was followed by Get(k), which returned
\* (zero value, true), in a bucket that holds another key as well.
InsertThenGetZeroReached ==
    /\ last.op = "Get"
    /\ afterInsert
    /\ ~panicked
    /\ last.ret = <<ZeroValue, TRUE>>
    /\ Len(table[Home(last.key)]) > 1

\* C2: for every key never passed to Insert, Get returns (zero value, false)
\* and does not panic, whatever else the key's bucket holds.
GetMissing ==
    /\ ~panicked
    /\ \A k \in DOMAIN hash \ DOMAIN latest : Lookup(k) = <<ZeroValue, FALSE>>
    /\ (last.op = "Get" /\ last.key \notin DOMAIN latest)
          => last.ret = <<ZeroValue, FALSE>>

\* C2 witness: Get was called for a key never inserted whose bucket holds an
\* entry of another key with a value other than the zero value.
GetMissingInUsedBucketReached ==
    /\ last.op = "Get"
    /\ last.key \notin DOMAIN latest
    /\ \E j \in DOMAIN table[Home(last.key)] :
          table[Home(last.key)][j].Value # ZeroValue

\* C3: an Insert of a key already present makes Get return the new value and
\* leaves the length of the key's bucket as it was; after any sequence of
\* Inserts, Get returns the value of the most recent Insert of the key.
OverwriteKeepsLatest ==
    /\ Overwrote =>
          /\ Lookup(last.key) = <<last.value, TRUE>>
          /\ Len(table[Home(last.key)]) = Len(prev[Home(last.key)])
    /\ \A k \in DOMAIN latest : Lookup(k) = <<latest[k], TRUE>>
    /\ (last.op = "Get" /\ ~panicked /\ last.key \in DOMAIN latest)
          => last.ret = <<latest[last.key], TRUE>>

\* C3 witness: an Insert replaced a different stored value.
OverwriteReached == OverwroteOtherValue

\* C4: two distinct keys with the same hash value are both retrieved with
\* their own values.
CollidingKeys ==
    \A k1, k2 \in DOMAIN latest :
        (k1 # k2 /\ hash[k1] = hash[k2]) =>
            /\ Lookup(k1) = <<latest[k1], TRUE>>
            /\ Lookup(k2) = <<latest[k2], TRUE>>

\* C4 witness: Get returned the value of a key stored behind a colliding key
\* that has another value.
CollisionReached ==
    /\ last.op = "Get"
    /\ ~panicked
    /\ last.key \in DOMAIN latest
    /\ Scan(table[Home(last.key)], last.key, 1) > 1
    /\ last.ret[1] # table[Home(last.key)][1].Value

\* C5: every key that occurs in the table occurs in exactly one entry, and
\* that entry is in the bucket the key hashes to.
OneEntryPerKey ==
    \A i \in DOMAIN table : \A j \in DOMAIN table[i] :
        /\ Home(table[i][j].Key) = i
        /\ \A i2 \in DOMAIN table : \A j2 \in DOMAIN table[i2] :
              table[i2][j2].Key = table[i][j].Key => (i2 = i /\ j2 = j)

\* C5 witness: a key was inserted again into a bucket of several entries.
ReinsertReached ==
    /\ Overwrote
    /\ Len(table[Home(last.key)]) > 1

\* C7: an Insert of a present key changes only that entry's value and moves
\* no entry; an Insert of an absent key appends the entry to the bucket.
InsertKeepsOrder ==
    (last.op = "Insert" /\ ~panicked) =>
        LET old == prev[Home(last.key)]
            new == table[Home(last.key)]
        IN  IF Present(old, last.key)
            THEN /\ Len(new) = Len(old)
                 /\ \A j \in DOMAIN old :
                       /\ new[j].Key = old[j].Key
                       /\ old[j].Key = last.key => new[j].Value = last.value
                       /\ old[j].Key # last.key => new[j] = old[j]
            ELSE new = Append(old, [Key |-> last.key, Value |-> last.value])

\* C7 witness: a new key was appended behind an existing entry.
AppendBehindReached ==
    /\ last.op = "Insert"
    /\ ~panicked
    /\ ~Present(prev[Home(last.key)], last.key)
    /\ Len(prev[Home(last.key)]) > 0

\* C8: the bucket count stays the value given to New, no bucket gets shorter,
\* and a key that Get finds is found in every later state.
TableOnlyGrows ==
    [][ /\ m' = m
        /\ Len(table) = m
        /\ Len(table') = m
        /\ \A i \in DOMAIN table : Len(table'[i]) >= Len(table[i])
        /\ \A k \in DOMAIN hash :
              GetResult(table, hash[k], k)[2] => GetResult(table', hash[k], k)[2]
      ]_vars

\* C8 witness: Get found a key in a bucket that had grown to several entries.
FoundInGrownBucketReached ==
    /\ last.op = "Get"
    /\ ~panicked
    /\ last.ret[2]
    /\ Len(table[Home(last.key)]) > 1

\* C9: Insert(k, v) leaves every other bucket, every entry of another key and
\* the result of Get for every other key as they were; Get changes neither
\* the buckets nor the bucket count nor the hash function.
FrameEffect ==
    [][ /\ (last'.op = "Insert" /\ ~panicked') =>
              /\ \A i \in DOMAIN table : i # Home(last'.key) => table'[i] = table[i]
              /\ \A j \in DOMAIN table[Home(last'.key)] :
                    table[Home(last'.key)][j].Key # last'.key
                       => table'[Home(last'.key)][j] = table[Home(last'.key)][j]
              /\ \A k \in DOMAIN hash \ {last'.key} :
                    GetResult(table', hash[k], k) = GetResult(table, hash[k], k)
              /\ m' = m
              /\ hash' = hash
        /\ last'.op = "Get" => (table' = table /\ m' = m /\ hash' = hash)
      ]_vars

\* C9 witness: an Insert replaced the value of a key that is stored behind
\* another key in the same bucket.
OverwriteBehindOtherReached ==
    /\ OverwroteOtherValue
    /\ Scan(prev[Home(last.key)], last.key, 1) > 1

-----------------------------------------------------------------------------
(* Concurrent use (specification SpecConc) *)

\* Some key has two entries.
DuplicateKey ==
    \E i \in DOMAIN table : \E j1, j2 \in DOMAIN table[i] :
        j1 # j2 /\ table[i][j1].Key = table[i][j2].Key

\* The entry of an Insert that has returned is not in the table.
LostEntry == \E k \in completed : ~Present(table[Home(k)], k)

\* C6: unsynchronized calls race.  States that no sequential execution
\* reaches (a key with two entries, a lost entry, a panic) arise, and they
\* arise only after two calls have overlapped.
RaceNeedsOverlap ==
    (DuplicateKey \/ LostEntry \/ ~OneEntryPerKey \/ panicked) => overlapped

\* C6 witness: two Inserts have returned and left two entries with one key.
DuplicateKeyReached ==
    /\ DuplicateKey
    /\ \A t \in Threads : ~Busy(t)

\* Two Inserts have returned and the entry of one of them is gone.
LostEntryReached ==
    /\ LostEntry
    /\ \A t \in Threads : ~Busy(t)

-----------------------------------------------------------------------------
(* The demo table t2 (specification SpecT2) *)

\* C10: the hash function key % m of t2 stays in [0, m) for every int key,
\* negative keys included, so that no call on t2 indexes out of range.
T2HashInRange ==
    /\ \A k \in DOMAIN hash : hash[k] >= 0 /\ hash[k] < m
    /\ ~panicked

====
